---- MODULE Spec2Model ----
(***************************************************************************)
(* Model of the skimap longest-route finder (processMap and its helpers).  *)
(* The repository holds two revisions of the program; impl selects which   *)
(* one runs: "flr" is find_longest_route.js, "p0" is unnamed/part_000.     *)
(***************************************************************************)
EXTENDS Integers, Sequences, FiniteSets, TLC

\* ---- bounds of the model ----
MaxRows == 2
MaxCols == 3
MaxCells == 4
MaxElev == 4
MaxPaths == 2
MaxPathLen == 3

\* ---- JavaScript values that are not integers ----
\* undefined (a numeric property that was never assigned)
UNDEF == -1
\* NaN (undefined + 1)
NaN == -2
\* -Infinity (_.max of an empty list)
NegInfinity == -3
\* the value of a lookup that finds no box
NoBox == <<-1, -1>>

VARIABLES impl, mountainMap, dataMap, boxesFromLowToHigh, nextIndex,
          bestStartPoints, potentialPaths, steepestPaths, pc

vars == <<impl, mountainMap, dataMap, boxesFromLowToHigh, nextIndex,
          bestStartPoints, potentialPaths, steepestPaths, pc>>

Impls == {"flr", "p0"}

\* ---- generic helpers ----
RECURSIVE SeqsUpTo(_, _)
\* all sequences over S of length 0..n
SeqsUpTo(S, n) ==
    IF n = 0 THEN {<<>>}
    ELSE LET shorter == SeqsUpTo(S, n - 1)
         IN shorter \cup {Append(s, e) : s \in {t \in shorter : Len(t) = n - 1}, e \in S}

\* rows as readMap builds them: line.split(" ").map(Number) has at least one entry
Rows == {r \in SeqsUpTo(1..MaxElev, MaxCols) : Len(r) >= 1}

RECURSIVE MapsWithin(_, _)
\* the maps of at most n rows and at most budget cells
MapsWithin(n, budget) ==
    IF n = 0 THEN {<<>>}
    ELSE {<<>>} \cup
         UNION {{<<r>> \o m : m \in MapsWithin(n - 1, budget - Len(r))} : r \in {q \in Rows : Len(q) <= budget}}

\* the maps readMap can hand to processMap (rows may differ in length; none for a file with only the size line)
Maps == MapsWithin(MaxRows, MaxCells)

\* ---- createDataMap ----
createDataMap(map) ==
    [yy \in 1..Len(map) |->
        [xx \in 1..Len(map[yy]) |->
            [x |-> xx - 1, y |-> yy - 1, elevation |-> map[yy][xx],
             maxDistance |-> UNDEF, hasGoodDirections |-> FALSE, goodDirections |-> <<>>]]]

\* a box is referred to by its position <<x, y>>; BoxOf dereferences it
BoxOf(dm, ref) == dm[ref[2] + 1][ref[1] + 1]

getBoxAt(array2d, x, y) ==
    IF ~((y + 1) \in 1..Len(array2d)) THEN NoBox
    ELSE IF ~((x + 1) \in 1..Len(array2d[y + 1])) THEN NoBox
    ELSE <<x, y>>

getNeighbourInDirection(dm, box, direction) ==
    getBoxAt(dm, box[1] + direction[1], box[2] + direction[2])

DIRECTIONS == << <<-1, 0>>, <<0, 1>>, <<1, 0>>, <<0, -1>> >>

\* ---- JavaScript arithmetic on possibly-undefined numbers ----
jsPlusOne(v) == IF v \in {UNDEF, NaN} THEN NaN ELSE v + 1
jsGt(a, b) == a # NaN /\ b # NaN /\ a > b
jsGe(a, b) == a # NaN /\ b # NaN /\ a >= b

\* ---- processBox ----
setBox(dm, box, rec) == [dm EXCEPT ![box[2] + 1][box[1] + 1] = rec]

\* variant of isDownhill: the comparison written <= instead of <
isDownhill_orEqual(dm, box, neighbour) ==
    neighbour # NoBox /\ BoxOf(dm, neighbour).elevation <= BoxOf(dm, box).elevation

\* the test that a neighbour exists and is downhill
isDownhill(dm, box, neighbour) ==
    neighbour # NoBox /\ BoxOf(dm, neighbour).elevation < BoxOf(dm, box).elevation

\* variant of processDirection: the list of good directions is not cleared on a better distance
processDirection_noClear(dm, box, direction) ==
    LET neighbour == getNeighbourInDirection(dm, box, direction)
    IN IF ~isDownhill(dm, box, neighbour) THEN dm
       ELSE LET distanceViaNeighbour == jsPlusOne(BoxOf(dm, neighbour).maxDistance)
                b0 == BoxOf(dm, box)
                b1 == IF jsGt(distanceViaNeighbour, b0.maxDistance)
                      THEN [b0 EXCEPT !.hasGoodDirections = TRUE,
                                      !.maxDistance = distanceViaNeighbour]
                      ELSE b0
                b2 == IF jsGe(distanceViaNeighbour, b1.maxDistance)
                      THEN [b1 EXCEPT !.goodDirections = Append(@, direction)]
                      ELSE b1
            IN setBox(dm, box, b2)

\* variant of processDirection: the distance via the last downhill neighbour wins, better or not
processDirection_lastWins(dm, box, direction) ==
    LET neighbour == getNeighbourInDirection(dm, box, direction)
    IN IF ~isDownhill(dm, box, neighbour) THEN dm
       ELSE LET distanceViaNeighbour == jsPlusOne(BoxOf(dm, neighbour).maxDistance)
                b0 == BoxOf(dm, box)
                b1 == [b0 EXCEPT !.hasGoodDirections = TRUE, !.goodDirections = <<>>,
                                 !.maxDistance = distanceViaNeighbour]
                b2 == [b1 EXCEPT !.goodDirections = Append(@, direction)]
            IN setBox(dm, box, b2)

\* the body of the DIRECTIONS.forEach callback
processDirection(dm, box, direction) ==
    LET neighbour == getNeighbourInDirection(dm, box, direction)
    IN IF ~isDownhill(dm, box, neighbour) THEN dm
       ELSE LET distanceViaNeighbour == jsPlusOne(BoxOf(dm, neighbour).maxDistance)
                b0 == BoxOf(dm, box)
                b1 == IF jsGt(distanceViaNeighbour, b0.maxDistance)
                      THEN [b0 EXCEPT !.hasGoodDirections = TRUE, !.goodDirections = <<>>,
                                      !.maxDistance = distanceViaNeighbour]
                      ELSE b0
                b2 == IF jsGe(distanceViaNeighbour, b1.maxDistance)
                      THEN [b1 EXCEPT !.goodDirections = Append(@, direction)]
                      ELSE b1
            IN setBox(dm, box, b2)

RECURSIVE processDirections(_, _, _)
processDirections(dm, box, i) ==
    IF i > Len(DIRECTIONS) THEN dm
    ELSE processDirections(processDirection(dm, box, DIRECTIONS[i]), box, i + 1)

processBox(box, dm) ==
    processDirections(setBox(dm, box, [BoxOf(dm, box) EXCEPT !.maxDistance = 0]), box, 1)

\* ---- _.flatten(dataMap).sort(by elevation) ----
RECURSIVE flattenFrom(_, _)
flattenFrom(dm, yy) ==
    IF yy > Len(dm) THEN <<>>
    ELSE [i \in 1..Len(dm[yy]) |-> <<i - 1, yy - 1>>] \o flattenFrom(dm, yy + 1)

flatten(dm) == flattenFrom(dm, 1)

SeqToSet(s) == {s[i] : i \in 1..Len(s)}

\* variant of sortFirst: the comparator written b.elevation - a.elevation
sortFirst_highest(dm, S) == {c \in S : \A d \in S : BoxOf(dm, c).elevation >= BoxOf(dm, d).elevation}

\* the boxes the comparator a.elevation - b.elevation allows first
sortFirst(dm, S) == {c \in S : \A d \in S : BoxOf(dm, c).elevation <= BoxOf(dm, d).elevation}

RECURSIVE sortedOrders(_, _)
\* every order Array.prototype.sort may return: ascending, ties in any order
sortedOrders(dm, S) ==
    IF S = {} THEN {<<>>}
    ELSE UNION {{<<c>> \o rest : rest \in sortedOrders(dm, S \ {c})} : c \in sortFirst(dm, S)}

Init ==
    /\ impl \in Impls
    /\ mountainMap \in Maps
    /\ dataMap = <<>>
    /\ boxesFromLowToHigh = <<>>
    /\ nextIndex = 1
    /\ bestStartPoints = <<>>
    /\ potentialPaths = <<>>
    /\ steepestPaths = <<>>
    /\ pc = "createDataMap"

\* processMap: createDataMap, then flatten and sort
CreateAndSort ==
    /\ pc = "createDataMap"
    /\ dataMap' = createDataMap(mountainMap)
    /\ boxesFromLowToHigh' \in sortedOrders(dataMap', SeqToSet(flatten(dataMap')))
    /\ nextIndex' = 1
    /\ pc' = "processBoxes"
    /\ UNCHANGED <<impl, mountainMap, bestStartPoints, potentialPaths, steepestPaths>>

\* one iteration of boxesFromLowToHigh.forEach(processBox)
ProcessNextBox ==
    /\ pc = "processBoxes"
    /\ nextIndex <= Len(boxesFromLowToHigh)
    /\ dataMap' = processBox(boxesFromLowToHigh[nextIndex], dataMap)
    /\ nextIndex' = nextIndex + 1
    /\ UNCHANGED <<impl, mountainMap, boxesFromLowToHigh, bestStartPoints, potentialPaths, steepestPaths, pc>>

\* ---- findBestStartPoints ----
\* variant of findBestStep: the assignment written box.maxDistance = bestDistance
findBestStep_writesBox(acc, box) ==
    LET b == BoxOf(acc.dataMap, box)
        cleared == IF jsGt(b.maxDistance, acc.bestDistance) THEN <<>> ELSE acc.bestStartPoints
    IN IF jsGe(b.maxDistance, acc.bestDistance)
       THEN [acc EXCEPT !.dataMap = setBox(@, box, [b EXCEPT !.maxDistance = acc.bestDistance]),
                        !.bestStartPoints = Append(cleared, box)]
       ELSE [acc EXCEPT !.bestStartPoints = cleared]

\* the body of the row.forEach callback; acc carries the locals and the heap
findBestStep(acc, box) ==
    LET b == BoxOf(acc.dataMap, box)
        cleared == IF jsGt(b.maxDistance, acc.bestDistance) THEN <<>> ELSE acc.bestStartPoints
    IN IF jsGe(b.maxDistance, acc.bestDistance)
       THEN [acc EXCEPT !.bestDistance = b.maxDistance, !.bestStartPoints = Append(cleared, box)]
       ELSE [acc EXCEPT !.bestStartPoints = cleared]

RECURSIVE findBestFrom(_, _, _)
findBestFrom(acc, boxes, i) ==
    IF i > Len(boxes) THEN acc
    ELSE findBestFrom(findBestStep(acc, boxes[i]), boxes, i + 1)

\* returns the locals at the end of the scan, and the heap as the scan left it
findBestStartPoints(dm) ==
    findBestFrom([bestDistance |-> -1, bestStartPoints |-> <<>>, dataMap |-> dm], flatten(dm), 1)

\* ---- getGoodPathsFromBox ----
\* an element of a path list: an array of boxes, or (isArray = FALSE) one bare box object
mkPath(boxes) == [isArray |-> TRUE, boxes |-> boxes, steepness |-> UNDEF]
bareBox(box) == [isArray |-> FALSE, boxes |-> <<box>>, steepness |-> UNDEF]

\* the else branch: what is returned for a box with nowhere to go
terminalPaths(i, box) == IF i = "flr" THEN <<bareBox(box)>> ELSE <<mkPath(<<box>>)>>

\* the test that chooses between recursing and the else branch
hasWhereToGo(i, b) ==
    IF i = "flr" THEN b.hasGoodDirections /\ Len(b.goodDirections) > 0
    ELSE b.hasGoodDirections

\* variant of prepend: the box put after the neighbour's path
prepend_atEnd(box, onePathFromNeighbour) == mkPath(onePathFromNeighbour.boxes \o <<box>>)

\* _.flatten([box, onePathFromNeighbour])
prepend(box, onePathFromNeighbour) == mkPath(<<box>> \o onePathFromNeighbour.boxes)

RECURSIVE getGoodPathsFromBox(_, _, _)
RECURSIVE pathsViaDirections(_, _, _, _)
pathsViaDirections(i, dm, box, k) ==
    LET dirs == BoxOf(dm, box).goodDirections
    IN IF k > Len(dirs) THEN <<>>
       ELSE LET neighbourBox == getNeighbourInDirection(dm, box, dirs[k])
                pathsFromNeighbour == getGoodPathsFromBox(i, dm, neighbourBox)
            IN [j \in 1..Len(pathsFromNeighbour) |-> prepend(box, pathsFromNeighbour[j])]
               \o pathsViaDirections(i, dm, box, k + 1)

getGoodPathsFromBox(i, dm, box) ==
    IF hasWhereToGo(i, BoxOf(dm, box)) THEN pathsViaDirections(i, dm, box, 1)
    ELSE terminalPaths(i, box)

RECURSIVE getGoodPathsFromStartPoints(_, _, _, _)
getGoodPathsFromStartPoints(i, dm, startPoints, k) ==
    IF k > Len(startPoints) THEN <<>>
    ELSE getGoodPathsFromBox(i, dm, startPoints[k]) \o getGoodPathsFromStartPoints(i, dm, startPoints, k + 1)

\* ---- selectPathsWithGreatestSteepness ----
\* path[0].elevation throws a TypeError when path[0] is undefined
addSteepnessThrows(path) == ~path.isArray \/ Len(path.boxes) = 0

addSteepness(dm, path) ==
    LET startBox == BoxOf(dm, path.boxes[1])
        endBox == BoxOf(dm, path.boxes[Len(path.boxes)])
    IN [path EXCEPT !.steepness = startBox.elevation - endBox.elevation]

RECURSIVE maxOf(_, _)
\* _.max(_.pluck(list, 'steepness')), from index k on
maxOf(list, k) ==
    IF k > Len(list) THEN NegInfinity
    ELSE LET rest == maxOf(list, k + 1)
         IN IF list[k].steepness > rest THEN list[k].steepness ELSE rest

\* variant of where: _.findWhere, which stops at the first match
where_first(list, greatest) ==
    LET all == SelectSeq(list, LAMBDA p : p.steepness = greatest)
    IN IF all = <<>> THEN <<>> ELSE <<all[1]>>

\* _.where(list, {steepness: greatest}); SelectSeq keeps the order of list
where(list, greatest) == SelectSeq(list, LAMBDA p : p.steepness = greatest)

selectPathsWithGreatestSteepness(dm, paths) ==
    IF \E k \in 1..Len(paths) : addSteepnessThrows(paths[k])
    THEN [threw |-> TRUE, steepestPaths |-> <<>>]
    ELSE LET withSteepness == [k \in 1..Len(paths) |-> addSteepness(dm, paths[k])]
             greatestSteepness == maxOf(withSteepness, 1)
         IN [threw |-> FALSE, steepestPaths |-> where(withSteepness, greatestSteepness)]

\* the end of processMap: flr reads steepestPaths[0].length, p0 iterates over steepestPaths
reportThrows(i, steepest) == i = "flr" /\ Len(steepest) = 0

\* end of the forEach over boxesFromLowToHigh, then findBestStartPoints
FindBest ==
    /\ pc = "processBoxes"
    /\ nextIndex > Len(boxesFromLowToHigh)
    /\ LET r == findBestStartPoints(dataMap)
       IN /\ bestStartPoints' = r.bestStartPoints
          /\ dataMap' = r.dataMap
    /\ pc' = "getGoodPaths"
    /\ UNCHANGED <<impl, mountainMap, boxesFromLowToHigh, nextIndex, potentialPaths, steepestPaths>>

GetGoodPaths ==
    /\ pc = "getGoodPaths"
    /\ potentialPaths' = getGoodPathsFromStartPoints(impl, dataMap, bestStartPoints, 1)
    /\ pc' = "selectSteepest"
    /\ UNCHANGED <<impl, mountainMap, dataMap, boxesFromLowToHigh, nextIndex, bestStartPoints, steepestPaths>>

SelectSteepest ==
    /\ pc = "selectSteepest"
    /\ LET r == selectPathsWithGreatestSteepness(dataMap, potentialPaths)
       IN /\ steepestPaths' = r.steepestPaths
          /\ pc' = IF r.threw THEN "threw" ELSE "report"
    /\ UNCHANGED <<impl, mountainMap, dataMap, boxesFromLowToHigh, nextIndex, bestStartPoints, potentialPaths>>

Report ==
    /\ pc = "report"
    /\ pc' = IF reportThrows(impl, steepestPaths) THEN "threw" ELSE "done"
    /\ UNCHANGED <<impl, mountainMap, dataMap, boxesFromLowToHigh, nextIndex, bestStartPoints, potentialPaths, steepestPaths>>

Next == CreateAndSort \/ ProcessNextBox \/ FindBest \/ GetGoodPaths \/ SelectSteepest \/ Report

Spec == Init /\ [][Next]_vars

\* ---- the selector on its own: any non-empty list of descending paths of a solved one-row map ----
\* one fixed ascending order: lowest elevation first, ties in row-major order
lowestFirst(dm, order) ==
    CHOOSE k \in 1..Len(order) :
        /\ \A j \in 1..Len(order) : BoxOf(dm, order[k]).elevation <= BoxOf(dm, order[j]).elevation
        /\ \A j \in 1..(k - 1) : BoxOf(dm, order[j]).elevation # BoxOf(dm, order[k]).elevation

RECURSIVE stableOrder(_, _)
stableOrder(dm, remaining) ==
    IF remaining = <<>> THEN <<>>
    ELSE LET k == lowestFirst(dm, remaining)
         IN <<remaining[k]>> \o stableOrder(dm, SubSeq(remaining, 1, k - 1) \o SubSeq(remaining, k + 1, Len(remaining)))

RECURSIVE processAll(_, _, _)
processAll(dm, order, k) ==
    IF k > Len(order) THEN dm ELSE processAll(processBox(order[k], dm), order, k + 1)

\* the data map after the whole solver pass, boxes taken in stableOrder
solvedStable(map) ==
    LET dm == createDataMap(map) IN processAll(dm, stableOrder(dm, flatten(dm)), 1)

\* ---- reference notions, defined from the elevations alone ----
CellsOf(map) == UNION {{<<xx - 1, yy - 1>> : xx \in 1..Len(map[yy])} : yy \in 1..Len(map)}

ElevOf(map, c) == map[c[2] + 1][c[1] + 1]

Abs(n) == IF n < 0 THEN -n ELSE n

Adjacent(a, b) == Abs(a[1] - b[1]) + Abs(a[2] - b[2]) = 1

Descends(map, a, b) == Adjacent(a, b) /\ ElevOf(map, b) < ElevOf(map, a)

IsDescendingPath(map, p) ==
    /\ Len(p) >= 1
    /\ \A k \in 1..Len(p) : p[k] \in CellsOf(map)
    /\ \A k \in 1..(Len(p) - 1) : Descends(map, p[k], p[k + 1])

\* the paths of P, each continued by one more step downhill
ExtendDown(map, P) ==
    UNION {{Append(p, c) : c \in {n \in CellsOf(map) : Descends(map, p[Len(p)], n)}} : p \in P}

RECURSIVE DescendingClosure(_, _)
\* P and all its downhill continuations (finite: elevations strictly decrease)
DescendingClosure(map, P) ==
    IF P = {} THEN {} ELSE P \cup DescendingClosure(map, ExtendDown(map, P))

\* all strictly-descending 4-connected paths of the map
AllDescendingPaths(map) == DescendingClosure(map, {<<c>> : c \in CellsOf(map)})

MaxOfSet(S) == CHOOSE m \in S : \A n \in S : n <= m

\* number of edges of the longest descending path that starts at c
LongestFrom(map, c) == MaxOfSet({Len(p) - 1 : p \in DescendingClosure(map, {<<c>>})})

Drop(map, p) == ElevOf(map, p[1]) - ElevOf(map, p[Len(p)])

LongestPaths(map) ==
    LET all == AllDescendingPaths(map)
        longest == MaxOfSet({Len(p) : p \in all})
    IN {p \in all : Len(p) = longest}

LongestSteepestPaths(map) ==
    LET lp == LongestPaths(map)
        steepest == MaxOfSet({Drop(map, p) : p \in lp})
    IN {p \in lp : Drop(map, p) = steepest}

NoDuplicates(s) == \A i, j \in 1..Len(s) : s[i] = s[j] => i = j

BoxesOf(list) == [k \in 1..Len(list) |-> list[k].boxes]

SolverDone == \/ pc = "processBoxes" /\ nextIndex > Len(boxesFromLowToHigh)
              \/ pc \in {"getGoodPaths", "selectSteepest", "report", "done", "threw"}

Finished == pc \in {"done", "threw"}

\* the state in which the forEach over boxesFromLowToHigh has just ended
SolverJustDone == pc = "processBoxes" /\ nextIndex > Len(boxesFromLowToHigh)

\* the descending paths of at most MaxPathLen cells, as path-list elements
PathsUpTo(map, n) == {mkPath(p) : p \in {q \in AllDescendingPaths(map) : Len(q) <= n}}

InitSelect ==
    /\ impl \in Impls
    /\ mountainMap \in {m \in Maps : Len(m) = 1}
    /\ dataMap = solvedStable(mountainMap)
    /\ boxesFromLowToHigh = stableOrder(dataMap, flatten(dataMap))
    /\ nextIndex = Len(boxesFromLowToHigh) + 1
    /\ bestStartPoints = <<>>
    /\ potentialPaths \in {l \in SeqsUpTo(PathsUpTo(mountainMap, MaxPathLen), MaxPaths) : Len(l) >= 1}
    /\ steepestPaths = <<>>
    /\ pc = "selectSteepest"

NextSelect == SelectSteepest \/ Report

SpecSelect == InitSelect /\ [][NextSelect]_vars

\* ---- claims ----

\* C1: for every non-empty grid the pipeline completes and the list it returns is, as a set of
\* cell sequences, exactly the longest strictly-descending 4-connected paths of greatest drop,
\* none missing and none listed twice.
C1_PipelineReturnsLongestSteepest ==
    (Finished /\ CellsOf(mountainMap) # {}) =>
        /\ pc = "done"
        /\ \A k \in 1..Len(steepestPaths) : steepestPaths[k].isArray
        /\ SeqToSet(BoxesOf(steepestPaths)) = LongestSteepestPaths(mountainMap)
        /\ NoDuplicates(BoxesOf(steepestPaths))

\* C2: when the solver pass has processed every cell (the cells do not change afterwards,
\* see C10), every cell's maxDistance is the number of edges of the
\* longest strictly-descending 4-connected path starting at it (0 without a lower neighbour),
\* ragged grids included.
C2_MaxDistanceIsLongestDescent ==
    SolverJustDone =>
        \A c \in CellsOf(mountainMap) : BoxOf(dataMap, c).maxDistance = LongestFrom(mountainMap, c)

C2_Witness ==
    /\ SolverJustDone
    /\ Len(mountainMap) = 2 /\ Len(mountainMap[1]) # Len(mountainMap[2])
    /\ \E c \in CellsOf(mountainMap) : BoxOf(dataMap, c).maxDistance >= 3
    /\ \E c \in CellsOf(mountainMap) : BoxOf(dataMap, c).maxDistance = 0

\* the directions of box c whose neighbour exists, is lower, and is one step short of c's maxDistance
ExactGoodDirections(dm, c) ==
    {d \in SeqToSet(DIRECTIONS) :
        LET n == <<c[1] + d[1], c[2] + d[2]>>
        IN /\ n \in CellsOf(mountainMap)
           /\ BoxOf(dm, n).elevation < BoxOf(dm, c).elevation
           /\ BoxOf(dm, n).maxDistance + 1 = BoxOf(dm, c).maxDistance}

\* C3: in the grid as the solver pass leaves it, a cell with maxDistance > 0 lists in goodDirections exactly the
\* directions of its lower neighbours that are one step short of its maxDistance, each once.
C3_GoodDirectionsExact ==
    SolverJustDone =>
        \A c \in CellsOf(mountainMap) :
            BoxOf(dataMap, c).maxDistance > 0 =>
                /\ BoxOf(dataMap, c).hasGoodDirections
                /\ NoDuplicates(BoxOf(dataMap, c).goodDirections)
                /\ SeqToSet(BoxOf(dataMap, c).goodDirections) = ExactGoodDirections(dataMap, c)

\* a cell that saw a lower neighbour first and a strictly better one in a later direction
C3_Witness ==
    /\ SolverJustDone
    /\ \E c \in CellsOf(mountainMap) : \E i, j \in 1..Len(DIRECTIONS) :
        LET ni == getNeighbourInDirection(dataMap, c, DIRECTIONS[i])
            nj == getNeighbourInDirection(dataMap, c, DIRECTIONS[j])
        IN /\ i < j
           /\ isDownhill(dataMap, c, ni) /\ isDownhill(dataMap, c, nj)
           /\ BoxOf(dataMap, ni).maxDistance < BoxOf(dataMap, nj).maxDistance
           /\ BoxOf(dataMap, c).goodDirections = <<DIRECTIONS[j]>>

PathsEnumerated == pc \in {"selectSteepest", "report", "done", "threw"} /\ bestStartPoints # <<>>

bestDistanceOf(dm, starts) == BoxOf(dm, starts[1]).maxDistance

\* C4: every element of the enumerator's list is a sequence of bestDistance + 1 cells,
\* consecutive cells adjacent and strictly descending; for bestDistance = 0 it is the
\* one-cell sequence, not a bare cell.
C4_EnumeratedPathsWellFormed ==
    PathsEnumerated =>
        \A k \in 1..Len(potentialPaths) :
            /\ potentialPaths[k].isArray
            /\ Len(potentialPaths[k].boxes) = bestDistanceOf(dataMap, bestStartPoints) + 1
            /\ IsDescendingPath(mountainMap, potentialPaths[k].boxes)

SteepnessOf(p) == Drop(mountainMap, p.boxes)

\* C5: for a non-empty list of paths the selector returns a non-empty sub-list holding exactly
\* the paths of maximum steepness, in their input order.
C5_SelectorKeepsSteepestInOrder ==
    (pc \in {"report", "done"} /\ potentialPaths # <<>>) =>
        LET greatest == MaxOfSet({SteepnessOf(potentialPaths[k]) : k \in 1..Len(potentialPaths)})
        IN /\ steepestPaths # <<>>
           /\ BoxesOf(steepestPaths) =
                BoxesOf(SelectSeq(potentialPaths, LAMBDA p : SteepnessOf(p) = greatest))
           /\ \A k \in 1..Len(steepestPaths) : steepestPaths[k].steepness = greatest

\* a proper sub-list was selected, with a kept path after a dropped one
C5_Witness ==
    /\ pc = "report"
    /\ Len(potentialPaths) = MaxPaths
    /\ Len(steepestPaths) = MaxPaths - 1
    /\ steepestPaths[Len(steepestPaths)].boxes = potentialPaths[Len(potentialPaths)].boxes
    /\ steepestPaths[1].steepness > 0

\* C6: on an empty grid the run ends in a failure, never in a normal completion.
C6_EmptyGridFails ==
    CellsOf(mountainMap) = {} => pc # "done"

ScenarioB == << <<4, 3>>, <<2, 1>> >>

ElevationsOf(p) == [k \in 1..Len(p.boxes) |-> ElevOf(mountainMap, p.boxes[k])]

\* C7 as stated: for [[4,3],[2,1]] the run reports a longest path of 4 cells that visits all
\* 4 cells, with steepness 3.
C7_ScenarioB_AsStated ==
    (mountainMap = ScenarioB /\ Finished) =>
        /\ pc = "done"
        /\ \A k \in 1..Len(steepestPaths) :
            /\ Len(steepestPaths[k].boxes) = 4
            /\ SeqToSet(steepestPaths[k].boxes) = CellsOf(mountainMap)
            /\ steepestPaths[k].steepness = 3

\* C7 amended: for [[4,3],[2,1]] the run completes and reports exactly the two longest paths
\* 4-3-1 and 4-2-1, of 3 cells each, with steepness 3.
C7_ScenarioB_Amended ==
    (mountainMap = ScenarioB /\ Finished) =>
        /\ pc = "done"
        /\ SeqToSet([k \in 1..Len(steepestPaths) |-> ElevationsOf(steepestPaths[k])]) = {<<4, 3, 1>>, <<4, 2, 1>>}
        /\ Len(steepestPaths) = 2
        /\ \A k \in 1..Len(steepestPaths) : steepestPaths[k].steepness = 3

C7_Witness == mountainMap = ScenarioB /\ pc = "done" /\ Len(steepestPaths) = 2

Processed == SeqToSet(SubSeq(boxesFromLowToHigh, 1, nextIndex - 1))

LowerNeighbours(c) == {n \in CellsOf(mountainMap) : Descends(mountainMap, c, n)}

\* at the moment processBox is about to run on a box, its lower neighbours are already processed
C8_LowerNeighboursReady ==
    (pc = "processBoxes" /\ nextIndex <= Len(boxesFromLowToHigh)) =>
        \A n \in LowerNeighbours(boxesFromLowToHigh[nextIndex]) :
            n \in Processed /\ BoxOf(dataMap, n).maxDistance # UNDEF

\* every box is in the processing order exactly once
C8_EachBoxOnce ==
    pc # "createDataMap" =>
        /\ SeqToSet(boxesFromLowToHigh) = CellsOf(mountainMap)
        /\ NoDuplicates(boxesFromLowToHigh)

\* a processed box keeps its maxDistance
C8_ProcessedIsFinal ==
    \A c \in CellsOf(mountainMap) :
        (pc # "createDataMap" /\ c \in Processed) => BoxOf(dataMap', c).maxDistance = BoxOf(dataMap, c).maxDistance

\* C8: when processBox runs on a cell every lower neighbour is already processed, with its
\* maxDistance assigned and final, and processBox runs exactly once per cell.
C8_ProcessedInDependencyOrder ==
    /\ [](C8_LowerNeighboursReady /\ C8_EachBoxOnce)
    /\ [][C8_ProcessedIsFinal]_vars

\* processBox is about to run on a box that has a lower neighbour
C8_Witness ==
    /\ pc = "processBoxes" /\ nextIndex <= Len(boxesFromLowToHigh)
    /\ Cardinality(LowerNeighbours(boxesFromLowToHigh[nextIndex])) >= 2

\* C9: whatever order the sort gives to cells of equal elevation, the solved data map is the
\* one the row-major tie order gives, and so is the set of selected paths.
C9_TieOrderIrrelevant ==
    /\ SolverJustDone => dataMap = solvedStable(mountainMap)
    /\ pc = "done" =>
        \A dm \in {solvedStable(mountainMap)} :
          \A starts \in {findBestStartPoints(dm).bestStartPoints} :
            \A paths \in {getGoodPathsFromStartPoints(impl, dm, starts, 1)} :
                SeqToSet(BoxesOf(steepestPaths)) =
                    SeqToSet(BoxesOf(selectPathsWithGreatestSteepness(dm, paths).steepestPaths))

\* the boxes were processed in an order other than the row-major tie order, and some box can descend
C9_Witness ==
    /\ pc = "done"
    /\ boxesFromLowToHigh # stableOrder(dataMap, flatten(dataMap))
    /\ \E k \in 1..(Len(boxesFromLowToHigh) - 1) :
        /\ BoxOf(dataMap, boxesFromLowToHigh[k]).elevation = BoxOf(dataMap, boxesFromLowToHigh[k + 1]).elevation
        /\ BoxOf(dataMap, boxesFromLowToHigh[k]).maxDistance > 0
        /\ boxesFromLowToHigh[k] # stableOrder(dataMap, flatten(dataMap))[k]

\* C10: once the solver pass has finished, no later step changes any cell.
C10_CellsReadOnlyAfterSolve ==
    [][SolverDone => dataMap' = dataMap]_vars

\* the run went through all later phases and wrote a steepness on a path
C10_Witness ==
    /\ pc = "done"
    /\ steepestPaths # <<>>
    /\ steepestPaths[1].steepness >= 2
    /\ Len(bestStartPoints) >= 2
====
